---------------------------- MODULE Spec2Model ----------------------------
(***************************************************************************)
(* Best-path CTC decoding on an OpenCL device (src/BestPathCL.py).         *)
(*                                                                         *)
(* The host side (CLWrapper.__init__, CLWrapper.compute, ctcBestPathCL and *)
(* the self test) is translated from the Python source.  The device        *)
(* kernels bestPathAndCollapse, bestPath and collapsePath live in          *)
(* BestPathCL.cl, which the Python file only opens and dispatches; they    *)
(* are modelled from the design document (sections 4.1 - 4.3), with the    *)
(* geometry (lanes, buffers, arguments) taken from the Python dispatch.    *)
(*                                                                         *)
(* Labels and positions are 0-based as in the source; TLA+ sequences are   *)
(* 1-based, so entry i of a buffer is element i + 1 of its sequence.       *)
(***************************************************************************)
EXTENDS Integers, Sequences, FiniteSets, TLC

(***************************************************************************)
(* Bounds of the model.                                                    *)
(***************************************************************************)
MaxBatch == 2      \* largest batchSize a decoder is built with
MaxT == 2          \* largest maxT a decoder is built with
MaxC == 3          \* largest maxC a decoder is built with
MaxElems == 6      \* largest batchSize * maxT * maxC of a decoder that is built
MaxLanes == 5      \* longest score vector handed to the argmax reducers alone
MaxScore == 2      \* scores handed to the argmax reducers alone are 0..MaxScore
MaxLen == 4        \* longest raw sequence / label row handed to collapse and mapping alone
MaxAlpha == 3      \* longest alphabet handed to the label mapper alone

\* Scores a caller puts into a score tensor (small integers are exact in float32).
TensorScores == {0, 1}
\* What an uninitialised device buffer may hold: a value that is a valid label
\* and one that is no label at all.
Garbage == {0, 9}
Letters == <<"a", "b", "c", "d", "e", "f">>

VARIABLES
    hostPc,     \* position of the host program
    cfg,        \* CLWrapper fields batchSize, maxT, maxC, kernelVariant
    resources,  \* backend objects created so far
    mem,        \* device buffers batchBuf, tmpBuf, resBuf (flat)
    res,        \* host array self.res (flat, batchSize * maxT)
    queue,      \* commands enqueued on self.queue and not yet started
    running,    \* the command the device is executing, NoCommand when idle
    lane,       \* position of every work-item of the running kernel
    locPath,    \* local memory of the fused kernel, one row per group
    done,       \* commands of the current compute call that have completed
    rawDone,    \* (b, t) whose argmax result has been written in this call
    collapsed,  \* b whose collapse scan has run in this call
    input,      \* the tensor handed to the current call
    classes,    \* the alphabet handed to the current call
    texts,      \* result of ctcBestPathCL
    memo,       \* an earlier call's tensor and result, kept for comparison
    am,         \* argmax reducers run alone: scores and both results
    cp,         \* path collapser run alone: raw labels and the row written
    lm          \* label mapper run alone: row, alphabet and the text

sysVars == <<hostPc, cfg, resources, mem, res, queue, running, lane, locPath,
             done, rawDone, collapsed, input, classes, texts, memo>>
vars == <<hostPc, cfg, resources, mem, res, queue, running, lane, locPath,
          done, rawDone, collapsed, input, classes, texts, memo, am, cp, lm>>

None == [none |-> TRUE]

Max(a, b) == IF a > b THEN a ELSE b

(***************************************************************************)
(* ArgmaxReducer (design 4.1).                                             *)
(***************************************************************************)

\* Serial left-to-right scan of one lane of the fused kernel: a later score
\* replaces the best so far only when strictly greater.
RECURSIVE SerialScan(_, _, _)
SerialScan(v, c, best) ==
    IF c > Len(v) THEN best
    ELSE SerialScan(v, c + 1, IF v[c] > v[best] THEN c ELSE best)

ArgmaxSerial(v) == SerialScan(v, 2, 1) - 1

\* The comparison of the reduction tree: strict "greater than".
Takes(a, b) == a > b

\* One stage of the tree reduction over n scratch slots: lane i, a multiple
\* of 2 * s, compares its slot with slot i + s and keeps the later pair only
\* when Takes says so.  Lanes of one stage touch disjoint slots, and a
\* barrier separates the stages.
TreeStage(sc, s, n) ==
    [i \in 0..(n - 1) |->
        IF i % (2 * s) = 0 /\ i + s < n /\ Takes(sc[i + s].val, sc[i].val)
        THEN sc[i + s] ELSE sc[i]]

RECURSIVE TreeReduce(_, _, _)
TreeReduce(sc, s, n) ==
    IF s >= n THEN sc ELSE TreeReduce(TreeStage(sc, s, n), 2 * s, n)

\* Tree reduction by `lanes` work-items: lane c loads score c and its index
\* into the scratch arrays, the stages run, slot 0 holds the result.
ArgmaxTree(v, lanes) ==
    TreeReduce([i \in 0..(lanes - 1) |-> [val |-> v[i + 1], idx |-> i]], 1, lanes)[0].idx

\* One lane fewer than classes: the last score is never loaded.
OneLaneShort(maxC) == Max(maxC - 1, 1)

\* Work-items per group of the bestPath dispatch: local size (1, 1, maxC).
TreeLanes(maxC) == maxC

(***************************************************************************)
(* PathCollapser (design 4.2).                                             *)
(***************************************************************************)

\* A scan that never remembers what it emitted: every label is appended.
ForgetLast(cur, last) == -1

\* Step 2: the label appended becomes lastEmitted.
NextLast(cur, last) == cur

\* Steps 1 and 2: the entries the scan emits for raw[1..T], in order.
RECURSIVE CollapseScan(_, _, _, _, _)
CollapseScan(raw, T, t, last, out) ==
    IF t > T THEN out
    ELSE IF raw[t] # last
         THEN CollapseScan(raw, T, t + 1, NextLast(raw[t], last), Append(out, raw[t]))
         ELSE CollapseScan(raw, T, t + 1, last, out)

Emitted(raw, T) == CollapseScan(raw, T, 1, -1, <<>>)

\* The blank label: one past the real alphabet, the last of the maxC classes
\* the tensor holds scores for.
BlankIndex(maxC) == maxC - 1

\* Steps 1 to 3: the emitted entries padded with the blank label to length T.
CollapsePad(raw, T, maxC) ==
    LET out == Emitted(raw, T)
    IN  out \o [i \in 1..(T - Len(out)) |-> BlankIndex(maxC)]

(***************************************************************************)
(* Label mapping of ctcBestPathCL.                                         *)
(***************************************************************************)

\* A blank one past the alphabet's length: no label of a row ever equals it.
BlankOnePast(cls) == Len(cls) + 1

\* blank = len(classes)
MapperBlank(cls) == Len(cls)

\* classes[label]: Python indexing, negative labels count from the end and
\* anything else out of range raises IndexError.
Indexable(cls, label) == -Len(cls) <= label /\ label < Len(cls)
CharAt(cls, label) == IF label >= 0 THEN cls[label + 1] ELSE cls[Len(cls) + label + 1]

\* A mapper that skips a blank and goes on instead of stopping at it.
RECURSIVE SkipBlanks(_, _, _, _)
SkipBlanks(row, i, cls, str) ==
    IF i > Len(row) THEN [err |-> FALSE, str |-> str]
    ELSE IF row[i] = MapperBlank(cls) THEN SkipBlanks(row, i + 1, cls, str)
    ELSE IF ~Indexable(cls, row[i]) THEN [err |-> TRUE, str |-> str]
    ELSE SkipBlanks(row, i + 1, cls, Append(str, CharAt(cls, row[i])))

\* The inner loop: for label in row: if label == blank: break; charStr += classes[label]
RECURSIVE MapScan(_, _, _, _)
MapScan(row, i, cls, str) ==
    IF i > Len(row) THEN [err |-> FALSE, str |-> str]
    ELSE IF row[i] = MapperBlank(cls) THEN [err |-> FALSE, str |-> str]
    ELSE IF ~Indexable(cls, row[i]) THEN [err |-> TRUE, str |-> str]
    ELSE MapScan(row, i + 1, cls, Append(str, CharAt(cls, row[i])))

MapLabels(row, cls) == MapScan(row, 1, cls, <<>>)

Alphabet(n) == SubSeq(Letters, 1, n)

(***************************************************************************)
(* The three components run alone on every input within the bounds.        *)
(***************************************************************************)
Idle == [idle |-> TRUE]

SysIdle ==
    /\ hostPc = "off" /\ cfg = None /\ resources = {} /\ mem = None
    /\ res = <<>> /\ queue = <<>> /\ running = [op |-> "none"] /\ lane = <<>>
    /\ locPath = <<>> /\ done = {} /\ rawDone = {} /\ collapsed = {}
    /\ input = None /\ classes = <<>> /\ texts = None /\ memo = None

InitArgmax ==
    /\ SysIdle /\ cp = Idle /\ lm = Idle
    /\ \E n \in 1..MaxLanes : \E v \in [1..n -> 0..MaxScore] :
          am = [maxC |-> n, scores |-> v, serial |-> -1, tree |-> -1]

SerialApply ==
    /\ am # Idle /\ am.serial = -1
    /\ am' = [am EXCEPT !.serial = ArgmaxSerial(am.scores)]
    /\ UNCHANGED <<sysVars, cp, lm>>

TreeApply ==
    /\ am # Idle /\ am.tree = -1
    /\ am' = [am EXCEPT !.tree = ArgmaxTree(am.scores, TreeLanes(am.maxC))]
    /\ UNCHANGED <<sysVars, cp, lm>>

NextArgmax == SerialApply \/ TreeApply
SpecArgmax == InitArgmax /\ [][NextArgmax]_vars

InitCollapse ==
    /\ SysIdle /\ am = Idle /\ lm = Idle
    /\ \E T \in 1..MaxLen : \E C \in 1..MaxC : \E r \in [1..T -> 0..(C - 1)] :
          cp = [maxT |-> T, maxC |-> C, raw |-> r, row |-> <<>>, ran |-> FALSE]

CollapseApply ==
    /\ cp # Idle /\ ~cp.ran
    /\ cp' = [cp EXCEPT !.row = CollapsePad(cp.raw, cp.maxT, cp.maxC), !.ran = TRUE]
    /\ UNCHANGED <<sysVars, am, lm>>

NextCollapse == CollapseApply
SpecCollapse == InitCollapse /\ [][NextCollapse]_vars

InitMapper ==
    /\ SysIdle /\ am = Idle /\ cp = Idle
    /\ \E C \in 0..MaxAlpha : \E n \in 0..MaxLen : \E r \in [1..n -> 0..C] :
          lm = [row |-> r, classes |-> Alphabet(C), out |-> None]

MapperApply ==
    /\ lm # Idle /\ lm.out = None
    /\ lm' = [lm EXCEPT !.out = MapLabels(lm.row, lm.classes)]
    /\ UNCHANGED <<sysVars, am, cp>>

NextMapper == MapperApply
SpecMapper == InitMapper /\ [][NextMapper]_vars

(***************************************************************************)
(* CLWrapper.__init__                                                      *)
(***************************************************************************)
Seq0(n, x) == [i \in 1..n |-> x]

NumElems(c) == c.batchSize * c.maxC * c.maxT

\* assert(kernelVariant in [1, 2])
VariantOk(k) == k \in {1, 2}

\* np.zeros([batchSize, maxC, maxT]) raises ValueError on a negative
\* dimension; cl.Buffer raises on a host buffer of zero bytes.
BuffersCreatable(c) ==
    /\ c.batchSize >= 0 /\ c.maxC >= 0 /\ c.maxT >= 0
    /\ NumElems(c) > 0

\* Lines 19-24: the sizes are stored; nothing is checked yet.
New(b, t, c, k) ==
    /\ hostPc = "off"
    /\ (b > 0 /\ t > 0 /\ c > 0) => b * t * c <= MaxElems
    /\ cfg' = [batchSize |-> b, maxT |-> t, maxC |-> c, kernelVariant |-> k]
    /\ hostPc' = "ctorAssert"
    /\ UNCHANGED <<resources, mem, res, queue, running, lane, locPath, done,
                   rawDone, collapsed, input, classes, texts, memo, am, cp, lm>>

\* Line 25.
CtorAssert ==
    /\ hostPc = "ctorAssert"
    /\ hostPc' = IF VariantOk(cfg.kernelVariant) THEN "ctorBackend" ELSE "ctorRaised"
    /\ UNCHANGED <<cfg, resources, mem, res, queue, running, lane, locPath, done,
                   rawDone, collapsed, input, classes, texts, memo, am, cp, lm>>

\* Lines 29-36: the asserts on platforms and GPU devices, then the context
\* and the command queue.  Whether the machine has a GPU is the environment's.
CtorBackend ==
    /\ hostPc = "ctorBackend"
    /\ \E gpu \in BOOLEAN :
          IF gpu
          THEN /\ resources' = resources \cup {"context", "queue"}
               /\ hostPc' = "ctorBuffers"
          ELSE /\ resources' = resources
               /\ hostPc' = "ctorRaised"
    /\ UNCHANGED <<cfg, mem, res, queue, running, lane, locPath, done,
                   rawDone, collapsed, input, classes, texts, memo, am, cp, lm>>

\* Lines 39-42: batchBuf is created from zeros; self.res is zeros; resBuf and
\* tmpBuf are created without contents.
CtorBuffers ==
    /\ hostPc = "ctorBuffers"
    /\ IF BuffersCreatable(cfg)
       THEN \E g1 \in Garbage, g2 \in Garbage :
               /\ mem' = [batchBuf |-> Seq0(NumElems(cfg), 0),
                          resBuf |-> Seq0(cfg.batchSize * cfg.maxT, g1),
                          tmpBuf |-> Seq0(cfg.batchSize * cfg.maxT, g2)]
               /\ res' = Seq0(cfg.batchSize * cfg.maxT, 0)
               /\ resources' = resources \cup {"batchBuf", "resBuf", "tmpBuf"}
               /\ hostPc' = "ctorKernels"
       ELSE /\ hostPc' = "ctorRaised"
            /\ UNCHANGED <<mem, res, resources>>
    /\ UNCHANGED <<cfg, queue, running, lane, locPath, done,
                   rawDone, collapsed, input, classes, texts, memo, am, cp, lm>>

\* Lines 45-72: the program is built and the kernels get their arguments.
CtorKernels ==
    /\ hostPc = "ctorKernels"
    /\ resources' = resources \cup
          (IF cfg.kernelVariant = 1 THEN {"program", "kernel1"}
           ELSE {"program", "kernel1", "kernel2"})
    /\ hostPc' = "idle"
    /\ UNCHANGED <<cfg, mem, res, queue, running, lane, locPath, done,
                   rawDone, collapsed, input, classes, texts, memo, am, cp, lm>>

\* Kernel arguments set at construction.
\* A fused kernel handed tmpBuf as its output.
FusedWritesTmp(k) == "tmpBuf"

\* kernel1's output: set_arg(4, resBuf) for variant 1, set_arg(5, tmpBuf) for variant 2.
K1Out(k) == IF k = 1 THEN "resBuf" ELSE "tmpBuf"

\* kernel2: set_arg(0, tmpBuf), set_arg(3, resBuf).
K2In == "tmpBuf"
K2Out == "resBuf"

(***************************************************************************)
(* CLWrapper.compute and ctcBestPathCL                                     *)
(***************************************************************************)

\* batch.astype(np.float32): the tensor's scores are small integers, which
\* float32 holds exactly.
AsFloat32(d) == d

ShapeSize(s) == s[1] * s[2] * s[3]

\* The shape the constructor documents for batchBuf's contents.
ConfiguredShape(c) == <<c.batchSize, c.maxC, c.maxT>>

\* The shape the self test passes: np.stack([mat]) with maxT, maxC = mat.shape.
SelfTestShape(c) == <<c.batchSize, c.maxT, c.maxC>>

\* Tensors with as many elements as batchBuf, in the self test's shape; compute
\* never looks at the shape, so one tensor (all zeros) stands for those in the
\* documented shape.
FullTensors(c) ==
    {[shape |-> SelfTestShape(c), data |-> d] : d \in [1..NumElems(c) -> TensorScores]}
    \cup {[shape |-> ConfiguredShape(c), data |-> Seq0(NumElems(c), 0)]}

\* Tensors with one timestep too few, and one (all zeros) with one too many.
ShortTensors(c) ==
    IF c.maxT > 1
    THEN {[shape |-> <<c.batchSize, c.maxT - 1, c.maxC>>, data |-> d] :
             d \in [1..(c.batchSize * (c.maxT - 1) * c.maxC) -> TensorScores]}
    ELSE {}

LongTensor(c) ==
    [shape |-> <<c.batchSize, c.maxT + 1, c.maxC>>,
     data |-> Seq0(c.batchSize * (c.maxT + 1) * c.maxC, 0)]

Tensors(c) == FullTensors(c) \cup ShortTensors(c) \cup {LongTensor(c)}

\* Alphabets a caller passes with a decoder for maxC classes: the self test
\* passes "ab" with maxC = 3; the documented reading is one letter per class.
Alphabets(c) == {Alphabet(c.maxC - 1), Alphabet(c.maxC)}

CallReady == hostPc = "idle"

\* Lines 82-87: the fused kernel alone, or bestPath followed by collapsePath.
Dispatches(k) ==
    IF k = 1 THEN <<[op |-> "fused"]>>
    ELSE <<[op |-> "bestPath"], [op |-> "collapsePath"]>>

\* Line 98 and lines 79-90: ctcBestPathCL calls compute, which enqueues the
\* non-blocking write of the converted tensor, the kernels and the read of
\* resBuf, and then waits in the read.  The write's size is the host
\* array's; one that exceeds batchBuf is refused by the backend at line 79,
\* before anything is enqueued.  The device runs while the host enqueues,
\* but sees nothing of the host except the queue.
Compute(x) ==
    /\ CallReady
    /\ input' = x /\ classes' = <<>> /\ texts' = None
    /\ done' = {} /\ rawDone' = {} /\ collapsed' = {}
    /\ IF Len(x.data) > Len(mem.batchBuf)
       THEN hostPc' = "computeRaised" /\ queue' = queue
       ELSE /\ hostPc' = "waitRead"
            /\ queue' = queue \o <<[op |-> "write", data |-> AsFloat32(x.data)]>>
                             \o Dispatches(cfg.kernelVariant)
                             \o <<[op |-> "read"]>>
    /\ UNCHANGED <<cfg, resources, mem, res, running, lane, locPath, memo, am, cp, lm>>

\* A read enqueued without waiting for it.
NonBlocking == FALSE

\* Line 90: is_blocking = True.
ReadIsBlocking == TRUE

\* Lines 90-91: enqueue_read_buffer returns once the read has completed,
\* then compute returns self.res.
ComputeReturn ==
    /\ hostPc = "waitRead"
    /\ ReadIsBlocking => "read" \in done
    /\ hostPc' = "returned"
    /\ UNCHANGED <<cfg, resources, mem, res, queue, running, lane, locPath, done,
                   rawDone, collapsed, input, classes, texts, memo, am, cp, lm>>

RowOf(buf, b, T) == SubSeq(buf, b * T + 1, b * T + T)

\* Lines 101-112: every row of the returned buffer is mapped to a string;
\* an IndexError of classes[label] ends the call.  The alphabet is an
\* argument of the call that nothing reads before line 101, so the model
\* draws it here.
MapTexts(cls) ==
    /\ hostPc = "returned"
    /\ classes' = cls
    /\ LET out == [b \in 0..(cfg.batchSize - 1) |->
                      MapLabels(RowOf(res, b, cfg.maxT), cls)]
       IN  IF \E b \in 0..(cfg.batchSize - 1) : out[b].err
           THEN hostPc' = "computeRaised" /\ texts' = None
           ELSE /\ hostPc' = "mapped"
                /\ texts' = [strs |-> [b \in 0..(cfg.batchSize - 1) |-> out[b].str]]
    /\ UNCHANGED <<cfg, resources, mem, res, queue, running, lane, locPath, done,
                   rawDone, collapsed, input, memo, am, cp, lm>>

\* Line 112, the exception leaving the call, or compute's return to a caller
\* that uses the labels as they are: the call is over and its arguments and
\* locals are gone; the decoder keeps its buffers.
CallEnds ==
    /\ hostPc \in {"returned", "mapped", "computeRaised"}
    /\ hostPc' = "idle"
    /\ input' = None /\ classes' = <<>> /\ texts' = None
    /\ done' = {} /\ rawDone' = {} /\ collapsed' = {}
    /\ UNCHANGED <<cfg, resources, mem, res, queue, running, lane, locPath,
                   memo, am, cp, lm>>

(***************************************************************************)
(* The device: the command queue and the kernels.                          *)
(***************************************************************************)
NoCommand == [op |-> "none"]

\* A queue that may start any enqueued command.
AnyQueued(q) == 1..Len(q)

\* cl.CommandQueue(context, device) with default properties is in-order:
\* only the oldest command may start, and only when the device is free.
Startable(q) == {1}

RemoveAt(q, i) == SubSeq(q, 1, i - 1) \o SubSeq(q, i + 1, Len(q))

\* Work-items of each dispatch: (batchSize, maxT) in groups (1, maxT);
\* (batchSize, maxT, maxC) in groups (1, 1, maxC); (batchSize,).
FusedLanes(c) == (0..(c.batchSize - 1)) \X (0..(c.maxT - 1))
BestPathGroups(c) == (0..(c.batchSize - 1)) \X (0..(c.maxT - 1))
CollapseItems(c) == (0..(c.batchSize - 1)) \X {0}

UnitsOf(op, c) ==
    IF op = "fused" THEN FusedLanes(c)
    ELSE IF op = "bestPath" THEN BestPathGroups(c)
    ELSE IF op = "collapsePath" THEN CollapseItems(c)
    ELSE {}

DeviceStart ==
    /\ running = NoCommand /\ queue # <<>>
    /\ \E i \in Startable(queue) \cap (1..Len(queue)) :
          /\ running' = queue[i]
          /\ queue' = RemoveAt(queue, i)
          /\ lane' = [u \in UnitsOf(queue[i].op, cfg) |-> "run"]
          /\ IF queue[i].op = "fused"
             THEN \E g \in Garbage :
                     locPath' = [b \in 0..(cfg.batchSize - 1) |-> Seq0(cfg.maxT, g)]
             ELSE locPath' = locPath
    /\ UNCHANGED <<hostPc, cfg, resources, mem, res, done, rawDone, collapsed,
                   input, classes, texts, memo, am, cp, lm>>

\* The write lands: the host array's elements replace the head of batchBuf.
DevWrite ==
    /\ running.op = "write"
    /\ mem' = [mem EXCEPT !.batchBuf =
                  [i \in 1..Len(mem.batchBuf) |->
                      IF i <= Len(running.data) THEN running.data[i] ELSE mem.batchBuf[i]]]
    /\ done' = done \cup {"write"}
    /\ running' = NoCommand
    /\ UNCHANGED <<hostPc, cfg, resources, res, queue, lane, locPath, rawDone,
                   collapsed, input, classes, texts, memo, am, cp, lm>>

\* The maxC scores of batch element b at timestep t, as the self test lays
\* them out: element (b, t, c) at b * maxT * maxC + t * maxC + c.
ScoresAt(buf, b, t, c) ==
    [k \in 1..c.maxC |-> buf[b * c.maxT * c.maxC + t * c.maxC + k]]

WriteAt(buf, i, v) == [buf EXCEPT ![i + 1] = v]

WriteRow(buf, b, T, row) ==
    [i \in 1..Len(buf) |-> IF b * T < i /\ i <= b * T + T THEN row[i - b * T] ELSE buf[i]]

\* Fused kernel, lane (b, t): serial argmax of its scores into the group's
\* local memory, then the barrier.
FusedArgmax(b, t) ==
    /\ running.op = "fused" /\ <<b, t>> \in DOMAIN lane /\ lane[<<b, t>>] = "run"
    /\ locPath' = [locPath EXCEPT ![b][t + 1] = ArgmaxSerial(ScoresAt(mem.batchBuf, b, t, cfg))]
    /\ rawDone' = rawDone \cup {<<b, t>>}
    /\ lane' = [lane EXCEPT ![<<b, t>>] = "barrier"]
    /\ UNCHANGED <<hostPc, cfg, resources, mem, res, queue, running, done, collapsed,
                   input, classes, texts, memo, am, cp, lm>>

\* The barrier of group b opens when all its lanes have arrived; lane 0 goes
\* on to collapse, the others are finished.
FusedBarrier(b) ==
    /\ running.op = "fused"
    /\ \E u \in DOMAIN lane : u[1] = b
    /\ \A u \in DOMAIN lane : u[1] = b => lane[u] = "barrier"
    /\ lane' = [u \in DOMAIN lane |->
                   IF u[1] # b THEN lane[u]
                   ELSE IF u[2] = 0 THEN "collapse" ELSE "done"]
    /\ UNCHANGED <<hostPc, cfg, resources, mem, res, queue, running, locPath, done,
                   rawDone, collapsed, input, classes, texts, memo, am, cp, lm>>

\* Lane 0 of group b collapses the group's raw labels into row b of its output.
FusedCollapse(b) ==
    /\ running.op = "fused" /\ <<b, 0>> \in DOMAIN lane /\ lane[<<b, 0>>] = "collapse"
    /\ mem' = [mem EXCEPT ![K1Out(cfg.kernelVariant)] =
                  WriteRow(@, b, cfg.maxT, CollapsePad(locPath[b], cfg.maxT, cfg.maxC))]
    /\ collapsed' = collapsed \cup {b}
    /\ lane' = [lane EXCEPT ![<<b, 0>>] = "done"]
    /\ UNCHANGED <<hostPc, cfg, resources, res, queue, running, locPath, done,
                   rawDone, input, classes, texts, memo, am, cp, lm>>

\* bestPath kernel, group (b, t): tree reduction by its lanes, result written
\* to entry (b, t) of the kernel's output.
BestPathGroup(b, t) ==
    /\ running.op = "bestPath" /\ <<b, t>> \in DOMAIN lane /\ lane[<<b, t>>] = "run"
    /\ mem' = [mem EXCEPT ![K1Out(cfg.kernelVariant)] =
                  WriteAt(@, b * cfg.maxT + t,
                          ArgmaxTree(ScoresAt(mem.batchBuf, b, t, cfg), TreeLanes(cfg.maxC)))]
    /\ rawDone' = rawDone \cup {<<b, t>>}
    /\ lane' = [lane EXCEPT ![<<b, t>>] = "done"]
    /\ UNCHANGED <<hostPc, cfg, resources, res, queue, running, locPath, done,
                   collapsed, input, classes, texts, memo, am, cp, lm>>

\* collapsePath kernel, work-item b: collapse of row b of its input into row
\* b of its output.
CollapseItem(b) ==
    /\ running.op = "collapsePath" /\ <<b, 0>> \in DOMAIN lane /\ lane[<<b, 0>>] = "run"
    /\ mem' = [mem EXCEPT ![K2Out] =
                  WriteRow(@, b, cfg.maxT,
                           CollapsePad(RowOf(mem[K2In], b, cfg.maxT), cfg.maxT, cfg.maxC))]
    /\ collapsed' = collapsed \cup {b}
    /\ lane' = [lane EXCEPT ![<<b, 0>>] = "done"]
    /\ UNCHANGED <<hostPc, cfg, resources, res, queue, running, locPath, done,
                   rawDone, input, classes, texts, memo, am, cp, lm>>

\* A kernel command completes when all its work-items have finished.
KernelFinish ==
    /\ running.op \in {"fused", "bestPath", "collapsePath"}
    /\ \A u \in DOMAIN lane : lane[u] = "done"
    /\ done' = done \cup {running.op}
    /\ running' = NoCommand
    /\ lane' = <<>>
    /\ UNCHANGED <<hostPc, cfg, resources, mem, res, queue, locPath, rawDone,
                   collapsed, input, classes, texts, memo, am, cp, lm>>

\* The read lands: resBuf is copied into self.res.
DevRead ==
    /\ running.op = "read"
    /\ res' = mem.resBuf
    /\ done' = done \cup {"read"}
    /\ running' = NoCommand
    /\ UNCHANGED <<hostPc, cfg, resources, mem, queue, lane, locPath, rawDone,
                   collapsed, input, classes, texts, memo, am, cp, lm>>

Device ==
    \/ DeviceStart
    \/ DevWrite
    \/ \E u \in DOMAIN lane : FusedArgmax(u[1], u[2])
    \/ \E b \in 0..(MaxBatch - 1) : FusedBarrier(b)
    \/ \E b \in 0..(MaxBatch - 1) : FusedCollapse(b)
    \/ \E u \in DOMAIN lane : BestPathGroup(u[1], u[2])
    \/ \E u \in DOMAIN lane : CollapseItem(u[1])
    \/ KernelFinish
    \/ DevRead

\* A caller constructs a decoder with any sizes and any strategy value.
NewAny ==
    /\ hostPc = "off"
    /\ \E b \in (-1)..MaxBatch, t \in (-1)..MaxT, c \in (-1)..MaxC, k \in 0..3 :
          New(b, t, c, k)

Construct ==
    \/ NewAny
    \/ CtorAssert
    \/ CtorBackend
    \/ CtorBuffers
    \/ CtorKernels

Init ==
    /\ hostPc = "off" /\ cfg = None /\ resources = {} /\ mem = None
    /\ res = <<>> /\ queue = <<>> /\ running = NoCommand /\ lane = <<>>
    /\ locPath = <<>> /\ done = {} /\ rawDone = {} /\ collapsed = {}
    /\ input = None /\ classes = <<>> /\ texts = None /\ memo = None
    /\ am = Idle /\ cp = Idle /\ lm = Idle

\* A caller decodes any tensor, with either alphabet.
Decode ==
    /\ CallReady
    /\ \E x \in Tensors(cfg) : Compute(x)

Map ==
    /\ hostPc = "returned"
    /\ \E cls \in Alphabets(cfg) : MapTexts(cls)

Next ==
    \/ Construct
    \/ Decode
    \/ ComputeReturn
    \/ Map
    \/ CallEnds
    \/ Device

Spec == Init /\ [][Next]_vars

(***************************************************************************)
(* Two decoders of the same sizes, one per strategy, given the same tensor. *)
(* They share nothing, so the second is built and run after the first has  *)
(* returned; memo keeps the first one's tensor and result.                 *)
(***************************************************************************)
NewValid ==
    /\ hostPc = "off"
    /\ \E b \in 1..MaxBatch, t \in 1..MaxT, c \in 1..MaxC, k \in {1, 2} : New(b, t, c, k)

Rebuild ==
    /\ hostPc = "returned" /\ memo = None
    /\ memo' = [tensor |-> input, out |-> res, variant |-> cfg.kernelVariant]
    /\ cfg' = [cfg EXCEPT !.kernelVariant = 3 - @]
    /\ hostPc' = "ctorAssert"
    /\ resources' = {} /\ mem' = None /\ res' = <<>>
    /\ input' = None /\ classes' = <<>> /\ texts' = None
    /\ done' = {} /\ rawDone' = {} /\ collapsed' = {}
    /\ UNCHANGED <<queue, running, lane, locPath, am, cp, lm>>

DecodePair ==
    /\ CallReady
    /\ IF memo = None
       THEN \E x \in FullTensors(cfg) : Compute(x)
       ELSE Compute(memo.tensor)

NextPair ==
    \/ NewValid
    \/ CtorAssert
    \/ CtorBackend
    \/ CtorBuffers
    \/ CtorKernels
    \/ DecodePair
    \/ ComputeReturn
    \/ Rebuild
    \/ Device

SpecPair == Init /\ [][NextPair]_vars

(***************************************************************************)
(* One decoder called again and again, one earlier call remembered.        *)
(***************************************************************************)
RepeatElems == 4   \* largest batchSize * maxT * maxC of the decoder called repeatedly

NewSmall ==
    /\ hostPc = "off"
    /\ \E b \in 1..MaxBatch, t \in 1..MaxT, c \in 1..MaxC, k \in {1, 2} :
          b * t * c <= RepeatElems /\ New(b, t, c, k)

Remember ==
    /\ hostPc = "returned" /\ memo = None
    /\ memo' = [tensor |-> input, out |-> res, variant |-> cfg.kernelVariant]
    /\ UNCHANGED <<hostPc, cfg, resources, mem, res, queue, running, lane, locPath,
                   done, rawDone, collapsed, input, classes, texts, am, cp, lm>>

NextRepeat ==
    \/ NewSmall
    \/ CtorAssert
    \/ CtorBackend
    \/ CtorBuffers
    \/ CtorKernels
    \/ Decode
    \/ ComputeReturn
    \/ Remember
    \/ CallEnds
    \/ Device

SpecRepeat == Init /\ [][NextRepeat]_vars

(***************************************************************************)
(* Claims about the components run alone.                                  *)
(***************************************************************************)

\* The smallest index among those that attain the maximum of v.
LowestMax(v) ==
    CHOOSE i \in 0..(Len(v) - 1) :
        /\ \A j \in 0..(Len(v) - 1) : v[j + 1] <= v[i + 1]
        /\ \A j \in 0..(i - 1) : v[j + 1] < v[i + 1]

\* C1: for every score vector, the serial scan and the tree reduction over
\* one lane per class both return the smallest index that attains the
\* maximum score, also when the number of lanes is not a power of two.
C1_LowestIndexWins ==
    am # Idle =>
        /\ am.serial # -1 => am.serial = LowestMax(am.scores)
        /\ am.tree # -1 => am.tree = LowestMax(am.scores)

\* C1 witness: both reducers have run on five scores (not a power of two)
\* whose maximum is attained at two indices, the later of them the last.
C1_Witness ==
    /\ am # Idle /\ am.serial # -1 /\ am.tree # -1
    /\ am.maxC = 5
    /\ am.scores[2] = am.scores[5] /\ am.scores[2] > am.scores[1]
    /\ \A i \in 1..5 : am.scores[i] <= am.scores[2]

\* Number of maximal runs of equal labels in raw[1..T].
Runs(raw, T) == 1 + Cardinality({t \in 1..(T - 1) : raw[t] # raw[t + 1]})

NoAdjacentEqual(row, n) == \A i \in 1..(n - 1) : row[i] # row[i + 1]

\* C4 as stated: the row written by steps 1 to 3 has no two adjacent equal
\* entries and length at most T.
C4_PaddedRowHasNoRepeat ==
    (cp # Idle /\ cp.ran) =>
        /\ Len(cp.row) <= cp.maxT
        /\ NoAdjacentEqual(cp.row, Len(cp.row))

\* C4 amended: the row has length exactly T; its first k entries, k the
\* number of runs of the raw sequence (at most T), have no two adjacent
\* equal entries; every entry after them is the blank label.
C4_EmittedPrefixHasNoRepeat ==
    (cp # Idle /\ cp.ran) =>
        LET k == Runs(cp.raw, cp.maxT)
        IN  /\ Len(cp.row) = cp.maxT
            /\ k <= cp.maxT
            /\ NoAdjacentEqual(cp.row, k)
            /\ \A i \in (k + 1)..cp.maxT : cp.row[i] = BlankIndex(cp.maxC)

\* C4 witness: a raw sequence with a repeated label has been collapsed and
\* the row ends in two padding blanks.
C4_Witness ==
    /\ cp # Idle /\ cp.ran /\ cp.maxT = 4 /\ cp.maxC = 3
    /\ cp.raw = <<0, 0, 1, 1>>
    /\ cp.row = <<0, 1, 2, 2>>

\* Position of the first blank of a row, one past its end when it has none.
FirstBlank(row, blank) ==
    IF \E i \in 1..Len(row) : row[i] = blank
    THEN CHOOSE i \in 1..Len(row) :
            row[i] = blank /\ \A j \in 1..(i - 1) : row[j] # blank
    ELSE Len(row) + 1

\* C5: for every row with entries in [0, C] and every alphabet of C
\* characters, the mapper raises no error and returns the characters of the
\* entries before the first blank (entry C), in order, and nothing else.
C5_MapsUpToFirstBlank ==
    (lm # Idle /\ lm.out # None) =>
        LET k == FirstBlank(lm.row, Len(lm.classes))
        IN  /\ ~lm.out.err
            /\ lm.out.str = [i \in 1..(k - 1) |-> lm.classes[lm.row[i] + 1]]
            /\ Len(lm.out.str) <=
                  Cardinality({i \in 1..(k - 1) : lm.row[i] # Len(lm.classes)})

\* C5 witness: a row with a character, a blank and a character after the
\* blank has been mapped to the one character before the blank.
C5_Witness ==
    /\ lm # Idle /\ lm.out # None
    /\ lm.classes = <<"a", "b">>
    /\ lm.row = <<1, 2, 0>>
    /\ lm.out.str = <<"b">>

(***************************************************************************)
(* Claims about the decoder.                                               *)
(***************************************************************************)
Batch == 0..(cfg.batchSize - 1)
Steps == 0..(cfg.maxT - 1)

\* The raw labels of batch element b that the scores held by the device call
\* for: the lowest index of the maximum at every timestep.
RawOf(b) == [t \in 1..cfg.maxT |-> LowestMax(ScoresAt(mem.batchBuf, b, t - 1, cfg))]

AllRawDone(b) == \A t \in Steps : <<b, t>> \in rawDone

\* C2: for every tensor with the configured number of elements, a decoder
\* built with one strategy and a decoder of the same sizes built with the
\* other return the same label buffer, entry for entry, padding included.
C2_StrategiesAgree ==
    (hostPc = "returned" /\ memo # None) => res = memo.out

\* C2 witness: the two-phase decoder has returned for the tensor the fused
\* decoder was given before, a batch of two, and the buffer holds a label
\* that is not the blank.
C2_Witness ==
    /\ hostPc = "returned" /\ memo # None
    /\ memo.variant = 1 /\ cfg.kernelVariant = 2
    /\ input = memo.tensor
    /\ cfg.batchSize = 2 /\ cfg.maxC = 3
    /\ \E i \in 1..Len(res) : res[i] # cfg.maxC - 1

\* C3: in every interleaving, the collapse scan of a batch element runs only
\* after the argmax result of each of its timesteps has been written and
\* holds the label its scores call for: the fused kernel's collapse lane
\* starts only behind the barrier of all T lanes, and the collapsePath
\* dispatch starts only after every group of the bestPath dispatch is done.
C3_CollapseAfterArgmax ==
    /\ \A b \in collapsed : AllRawDone(b)
    /\ running.op = "fused" =>
          \A u \in DOMAIN lane :
              lane[u] = "collapse" =>
                  /\ AllRawDone(u[1])
                  /\ locPath[u[1]] = RawOf(u[1])
    /\ running.op = "collapsePath" =>
          /\ "bestPath" \in done
          /\ rawDone = BestPathGroups(cfg)
          /\ \A b \in Batch : RowOf(mem[K2In], b, cfg.maxT) = RawOf(b)

\* C3 witness: the collapsePath dispatch has collapsed one of two batch
\* elements while the other has not been collapsed yet.
C3_Witness ==
    /\ running.op = "collapsePath"
    /\ cfg.batchSize = 2
    /\ Cardinality(collapsed) = 1

\* C6 as stated: the blank that pads the rows is maxC and is the index at
\* which the mapper stops; every entry is an alphabet index or that blank;
\* when the blank class is the argmax at every timestep the text is empty.
C6_BlankIsMaxC ==
    hostPc = "mapped" =>
        /\ MapperBlank(classes) = cfg.maxC
        /\ \A i \in 1..Len(res) : res[i] < Len(classes) \/ res[i] = cfg.maxC
        /\ \A b \in Batch :
              /\ \A i \in (Runs(RawOf(b), cfg.maxT) + 1)..cfg.maxT :
                    RowOf(res, b, cfg.maxT)[i] = cfg.maxC
              /\ (\A t \in 1..cfg.maxT : RawOf(b)[t] = cfg.maxC - 1) => texts.strs[b] = <<>>

\* C6 amended: the blank that pads the rows is maxC - 1, the last of the maxC
\* classes; with an alphabet of maxC - 1 characters, as in the self test, it
\* is the index at which the mapper stops, every entry is an alphabet index
\* or that blank, the mapping raises nothing, and the text is empty when the
\* blank class is the argmax at every timestep.
C6_BlankIsLastClass ==
    /\ hostPc \in {"returned", "mapped"} =>
          /\ \A i \in 1..Len(res) : res[i] \in 0..(cfg.maxC - 1)
          /\ \A b \in Batch :
                \A i \in (Runs(RawOf(b), cfg.maxT) + 1)..cfg.maxT :
                    RowOf(res, b, cfg.maxT)[i] = cfg.maxC - 1
    /\ (hostPc = "mapped" /\ Len(classes) = cfg.maxC - 1) =>
          /\ MapperBlank(classes) = cfg.maxC - 1
          /\ \A i \in 1..Len(res) : res[i] < Len(classes) \/ res[i] = MapperBlank(classes)
          /\ \A b \in Batch :
                (\A t \in 1..cfg.maxT : RawOf(b)[t] = cfg.maxC - 1) => texts.strs[b] = <<>>
    /\ hostPc = "computeRaised" => Len(input.data) > NumElems(cfg)

\* C6 witness: the self test's decoder (one element, two timesteps, three
\* classes, two-phase) has decoded a tensor whose last class wins at both
\* timesteps with the alphabet "ab", and the text is empty.
C6_Witness ==
    /\ hostPc = "mapped"
    /\ cfg = [batchSize |-> 1, maxT |-> 2, maxC |-> 3, kernelVariant |-> 2]
    /\ classes = <<"a", "b">>
    /\ input.data = <<0, 0, 1, 0, 0, 1>>
    /\ res = <<2, 2>>
    /\ texts.strs[0] = <<>>

\* C7: a call that is given the tensor of an earlier call on the same
\* decoder returns the buffer that call returned, whatever came between.
C7_SameTensorSameBuffer ==
    (hostPc = "returned" /\ memo # None /\ input = memo.tensor) => res = memo.out

BadConfig(c) ==
    \/ ~VariantOk(c.kernelVariant)
    \/ c.batchSize <= 0 \/ c.maxT <= 0 \/ c.maxC <= 0

\* C8: a construction with an unsupported strategy or a non-positive size
\* fails before any backend resource is created and yields no decoder.
C8_BadConfigFailsFirst ==
    (cfg # None /\ BadConfig(cfg)) =>
        /\ resources = {}
        /\ hostPc \in {"ctorAssert", "ctorBackend", "ctorRaised"}

\* C9: a call whose tensor's shape is not (batchSize, maxC, maxT) fails
\* before anything is dispatched and returns no buffer.
C9_MismatchFailsFast ==
    (input # None /\ input.shape # ConfiguredShape(cfg)) =>
        /\ hostPc = "computeRaised"
        /\ queue = <<>> /\ running = NoCommand /\ done = {}

Kernels == {"fused", "bestPath", "collapsePath"}

\* C10: within a call the write lands before any kernel work, bestPath
\* completes before collapsePath starts, the read of the results starts only
\* after every kernel of the call has completed, and compute returns only
\* after the read has landed.
C10_WriteKernelsRead ==
    /\ (running.op \in Kernels \/ rawDone # {} \/ collapsed # {}) => "write" \in done
    /\ running.op = "collapsePath" => "bestPath" \in done
    /\ (running.op = "read" \/ "read" \in done) =>
          /\ "write" \in done
          /\ \A i \in 1..Len(Dispatches(cfg.kernelVariant)) :
                Dispatches(cfg.kernelVariant)[i].op \in done
    /\ hostPc \in {"returned", "mapped"} => "read" \in done /\ res = mem.resBuf

\* C10 witness: compute has returned from a two-phase call whose write,
\* kernels and read have all completed, with a result that is not all blank.
C10_Witness ==
    /\ hostPc = "returned"
    /\ cfg.kernelVariant = 2
    /\ done = {"write", "bestPath", "collapsePath", "read"}
    /\ \E i \in 1..Len(res) : res[i] # cfg.maxC - 1

=============================================================================
